---- MODULE Spec2Model ----
(***************************************************************************)
(* A model of example.go, the storage resource provider sample: func init  *)
(* resolves the credentials, func main issues a fixed sequence of remote   *)
(* calls, prints their results and, after a prompt, deletes the storage    *)
(* account and the resource group.                                         *)
(*                                                                         *)
(* The SDK and the provider behind it are the environment: every remote    *)
(* call returns either an error or a result drawn from a small set.  The   *)
(* results carry every field the program dereferences (no nil pointer in a *)
(* successful result); the number of keys and the length of a key's value  *)
(* are the provider's choice.                                              *)
(***************************************************************************)
EXTENDS Integers, Sequences, FiniteSets, TLC

VARIABLES
    env,          \* the process environment: variable name -> value ("" when unset)
    pc,           \* the function init/main runs next, or "exited"
    exitStatus,   \* <<>> while the process runs, <<code>> once it has exited
    out,          \* standard output: the lines printed so far
    calls,        \* the remote calls issued so far, in order, each with its arguments and error
    clients,      \* the package-level client handles (<<>> until createClients ran)
    result,       \* checkAccountAvailability's result, <<>> when there is none
    keys,         \* main's keys (what getStorageKeys returned), <<>> when there is none
    newKeys,      \* regenStorageKey's newKeys, <<>> when there is none
    stdin,        \* the bytes standard input holds when the prompt is read
    input,        \* main's input, the string Scanln stored
    accountTags   \* the tags the storage account carries at the provider

vars == <<env, pc, exitStatus, out, calls, clients, result, keys, newKeys, stdin, input,
          accountTags>>

(***************************************************************************)
(* Bounds of the model.                                                    *)
(***************************************************************************)
MaxKeyLen == 6
MaxInputLen == 3

(***************************************************************************)
(* Program constants.                                                      *)
(***************************************************************************)
location == "westus"
groupName == "your-azure-sample-group"
accountName == "golangrocksonazure"
provider == "Microsoft.Storage"
\* the number of bytes of a key's value that are printed: (*key.Value)[:5]
PrefixLen == 5

EnvVarNames ==
    <<"AZURE_SUBSCRIPTION_ID", "AZURE_TENANT_ID", "AZURE_CLIENT_ID", "AZURE_CLIENT_SECRET">>

\* The two fixed tag pairs updateStorageAccount sends.
FixedTags == ("who rocks" :> "golang") @@ ("where" :> "on azure")

(***************************************************************************)
(* The environment's choices.                                              *)
(***************************************************************************)
\* os.Getenv returns "" for a variable that is unset (or set to nothing).
EnvValues == {"", "id"}

\* The error a library call returns: nil, or one of two errors.
NilErr == "<nil>"
Errors == {NilErr, "StatusCode=403", "StatusCode=500"}

\* What CheckNameAvailability says of the account name.
NameResults ==
    {[NameAvailable |-> TRUE, Reason |-> "", Message |-> ""],
     [NameAvailable |-> FALSE, Reason |-> "AlreadyExists",
      Message |-> "The storage account named golangrocksonazure is already taken."],
     [NameAvailable |-> FALSE, Reason |-> "AccountNameInvalid",
      Message |-> "golangrocksonazure is not a valid storage account name."]}

\* The account GetProperties returns.
AccountResults ==
    {[Name |-> accountName, ID |-> "/subscriptions/id/storageAccounts/golangrocksonazure",
      Sku |-> "Standard_LRS", Type |-> "Microsoft.Storage/storageAccounts",
      Location |-> location, ProvisioningState |-> "Succeeded"]}

\* The accounts ListByResourceGroup and List return (their names).
GroupAccountLists == {<<accountName>>}
SubscriptionAccountLists == {<<accountName>>, <<accountName, "another">>}

\* The usage records usageClient.List returns.
UsageLists == {<<[Name |-> "StorageAccounts", CurrentValue |-> "1", Limit |-> "250"]>>}

\* A key's secret value is a string of bytes; the values differ in the last byte
\* that is printed (byte PrefixLen) and in the first that is not.
KeyChars == {"a", "b"}
KeyValues ==
    {v \in UNION {[1..n -> KeyChars] : n \in 0..MaxKeyLen} :
        \A i \in 1..Len(v) : (i # PrefixLen /\ i # PrefixLen + 1) => v[i] = "a"}

\* The keys ListKeys and RegenerateKey return: none, key1, or key1 and key2.
KeyNames == <<"key1", "key2">>
KeyLists ==
    UNION {{[i \in 1..n |-> [KeyName |-> KeyNames[i], Value |-> f[i], Permissions |-> "Full"]] :
                f \in [1..n -> KeyValues]} : n \in 0..Len(KeyNames)}

\* What the user may type at the prompt: up to MaxInputLen bytes, then end of input.
StdinChars == {"y", "Y", "n", "e", "s", " ", "\n"}
StdinLines == UNION {[1..n -> StdinChars] : n \in 0..MaxInputLen}

\* The tags the account may carry before the run updates them.
PriorTags == {("where" :> "elsewhere"), ("who rocks" :> "golang") @@ ("env" :> "test")}

(***************************************************************************)
(* Output, calls and the two ways the program exits early.                 *)
(***************************************************************************)
\* One Print/Printf/Println: the format, its string operands, and the slice of a
\* key's value it prints (<<>> when it prints none).
Line(msg, args, key) == [msg |-> msg, args |-> args, key |-> key]

\* One remote call: the client method, its arguments and the error it returned.
Call(op, arg, err) == [op |-> op, arg |-> arg, err |-> err]

\* The state of a run of statements: the output so far and the exit status, if any.
Running(o) == [out |-> o, exit |-> <<>>]
Exited(r) == r.exit # <<>>

\* getEnvVarOrExit without its os.Exit: the message is printed and the run goes on.
GetEnvVarOrWarn(o, varName) ==
    IF env[varName] = ""
        THEN Running(Append(o, Line("Missing environment variable %s", <<varName>>, <<>>)))
        ELSE Running(o)

\* getEnvVarOrExit: prints and exits with status 1 when the variable is "".
GetEnvVarOrExit(o, varName) ==
    IF env[varName] = ""
        THEN [out |-> Append(o, Line("Missing environment variable %s", <<varName>>, <<>>)),
              exit |-> <<1>>]
        ELSE Running(o)

\* onErrorFail without its os.Exit: the diagnostic is printed and the run goes on.
OnErrorWarn(o, err, message) ==
    IF err # NilErr
        THEN Running(Append(o, Line("%s: %s", <<message, err>>, <<>>)))
        ELSE Running(o)

\* onErrorFail exiting with status 0.
OnErrorExitZero(o, err, message) ==
    IF err # NilErr
        THEN [out |-> Append(o, Line("%s: %s", <<message, err>>, <<>>)), exit |-> <<0>>]
        ELSE Running(o)

\* onErrorFail: prints "message: err" and exits with status 1 when err is not nil.
OnErrorFail(o, err, message) ==
    IF err # NilErr
        THEN [out |-> Append(o, Line("%s: %s", <<message, err>>, <<>>)), exit |-> <<1>>]
        ELSE Running(o)

\* A run-time panic (index or slice out of range): nothing more reaches standard
\* output and the process exits with status 2.
Panic(o) == [out |-> o, exit |-> <<2>>]

\* A run that tries the failed step again instead of exiting with status 1.
ProceedOrRetry(r, next) ==
    /\ out' = r.out
    /\ exitStatus' = IF r.exit = <<1>> THEN <<>> ELSE r.exit
    /\ pc' = IF r.exit = <<1>> THEN pc ELSE IF Exited(r) THEN "exited" ELSE next

\* The process moves on to `next`, or has exited.
Proceed(r, next) ==
    /\ out' = r.out
    /\ exitStatus' = r.exit
    /\ pc' = IF Exited(r) THEN "exited" ELSE next

\* createClients: the four clients, each with the subscription and the token.
CreateClients(subscriptionID, spToken) ==
    [c \in {"resourcesClient", "storageClient", "groupClient", "usageClient"} |->
        [subscriptionID |-> subscriptionID, Authorizer |-> spToken]]

(***************************************************************************)
(* func init                                                               *)
(***************************************************************************)
init ==
    /\ pc = "init"
    /\ \E oauthErr \in Errors, tokenErr \in Errors :
        LET r1 == GetEnvVarOrExit(out, "AZURE_SUBSCRIPTION_ID")
            r2 == IF Exited(r1) THEN r1 ELSE GetEnvVarOrExit(r1.out, "AZURE_TENANT_ID")
            r3 == IF Exited(r2) THEN r2
                  ELSE OnErrorFail(r2.out, oauthErr, "OAuthConfigForTenant failed")
            r4 == IF Exited(r3) THEN r3 ELSE GetEnvVarOrExit(r3.out, "AZURE_CLIENT_ID")
            r5 == IF Exited(r4) THEN r4 ELSE GetEnvVarOrExit(r4.out, "AZURE_CLIENT_SECRET")
            r6 == IF Exited(r5) THEN r5
                  ELSE OnErrorFail(r5.out, tokenErr, "NewServicePrincipalToken failed")
        IN  /\ Proceed(r6, "registerResourceProvider")
            /\ clients' = IF Exited(r6) THEN clients
                          ELSE <<CreateClients(env["AZURE_SUBSCRIPTION_ID"], "spToken")>>
    /\ UNCHANGED <<env, calls, result, keys, newKeys, stdin, input, accountTags>>

(***************************************************************************)
(* func main, one action for each function it calls                        *)
(***************************************************************************)
registerResourceProvider ==
    /\ pc = "registerResourceProvider"
    /\ \E err \in Errors :
        /\ calls' = Append(calls, Call("resourcesClient.Register",
                                       ("resourceProviderNamespace" :> provider), err))
        /\ Proceed(OnErrorFail(Append(out, Line("Register resource provider...", <<>>, <<>>)),
                               err, "Register failed"),
                   "checkAccountAvailability")
    /\ UNCHANGED <<env, clients, result, keys, newKeys, stdin, input, accountTags>>

\* ReportAvailability ending the run with status 0 when the name is not available.
ReportAvailabilityExitZero(o, res) ==
    IF res.NameAvailable = TRUE
        THEN Running(Append(o, Line("'%s' is available!", <<accountName>>, <<>>)))
        ELSE [out |-> o \o <<Line("'%s' is not available :( Reason: %s Message: %s",
                                  <<accountName, res.Reason, res.Message>>, <<>>),
                             Line("No resources were created.", <<>>, <<>>)>>,
              exit |-> <<0>>]

\* ReportAvailability without the os.Exit of its else branch.
ReportAvailabilityAndGoOn(o, res) ==
    IF res.NameAvailable = TRUE
        THEN Running(Append(o, Line("'%s' is available!", <<accountName>>, <<>>)))
        ELSE Running(o \o <<Line("'%s' is not available :( Reason: %s Message: %s",
                                  <<accountName, res.Reason, res.Message>>, <<>>),
                             Line("No resources were created.", <<>>, <<>>)>>)

\* ReportAvailability with its test inverted.
ReportAvailabilityInverted(o, res) ==
    IF res.NameAvailable # TRUE
        THEN Running(Append(o, Line("'%s' is available!", <<accountName>>, <<>>)))
        ELSE [out |-> o \o <<Line("'%s' is not available :( Reason: %s Message: %s",
                                  <<accountName, res.Reason, res.Message>>, <<>>),
                             Line("No resources were created.", <<>>, <<>>)>>,
              exit |-> <<1>>]

\* checkAccountAvailability once the call has succeeded: the name is available and
\* the run goes on, or it is not and the run reports why and exits with status 1.
ReportAvailability(o, res) ==
    IF res.NameAvailable = TRUE
        THEN Running(Append(o, Line("'%s' is available!", <<accountName>>, <<>>)))
        ELSE [out |-> o \o <<Line("'%s' is not available :( Reason: %s Message: %s",
                                  <<accountName, res.Reason, res.Message>>, <<>>),
                             Line("No resources were created.", <<>>, <<>>)>>,
              exit |-> <<1>>]

checkAccountAvailability ==
    /\ pc = "checkAccountAvailability"
    /\ \E err \in Errors, res \in NameResults :
        LET o1 == Append(out, Line("Check account name availability...", <<>>, <<>>))
            r1 == OnErrorFail(o1, err, "CheckNameAvailability failed")
            r2 == IF Exited(r1) THEN r1 ELSE ReportAvailability(r1.out, res)
        IN  /\ calls' = Append(calls, Call("storageClient.CheckNameAvailability",
                                  ("Name" :> accountName)
                                      @@ ("Type" :> "Microsoft.Storage/storageAccounts"),
                                  err))
            /\ result' = IF err = NilErr THEN <<res>> ELSE <<>>
            /\ Proceed(r2, "createResourceGroup")
    /\ UNCHANGED <<env, clients, keys, newKeys, stdin, input, accountTags>>

createResourceGroup ==
    /\ pc = "createResourceGroup"
    /\ \E err \in Errors :
        /\ calls' = Append(calls, Call("groupClient.CreateOrUpdate",
                                  ("resourceGroupName" :> groupName) @@ ("Location" :> location),
                                  err))
        /\ Proceed(OnErrorFail(Append(out, Line("Create resource group...", <<>>, <<>>)),
                               err, "CreateOrUpdate failed"),
                   "createStorageAccount")
    \* checkAccountAvailability has returned: its result is gone
    /\ result' = <<>>
    /\ UNCHANGED <<env, clients, keys, newKeys, stdin, input, accountTags>>

createStorageAccount ==
    /\ pc = "createStorageAccount"
    /\ \E err \in Errors :
        /\ calls' = Append(calls, Call("storageClient.Create",
                                  ("resourceGroupName" :> groupName)
                                      @@ ("accountName" :> accountName)
                                      @@ ("Sku" :> "Standard_LRS") @@ ("Location" :> location),
                                  err))
        /\ Proceed(OnErrorFail(Append(out, Line("Create storage account...", <<>>, <<>>)),
                               err, "Create failed"),
                   "getStorageAccountProperties")
    /\ UNCHANGED <<env, clients, result, keys, newKeys, stdin, input, accountTags>>

getStorageAccountProperties ==
    /\ pc = "getStorageAccountProperties"
    /\ \E err \in Errors, account \in AccountResults :
        LET o1 == Append(out, Line("Get storage account properties...", <<>>, <<>>))
            r1 == OnErrorFail(o1, err, "GetProperties failed")
            r2 == IF Exited(r1) THEN r1
                  ELSE Running(r1.out \o
                      <<Line("'%v' storage account properties", <<account.Name>>, <<>>),
                        Line("ID: %v", <<account.ID>>, <<>>),
                        Line("Sku Name: %v", <<account.Sku>>, <<>>),
                        Line("Type: %v", <<account.Type>>, <<>>),
                        Line("Location: %v", <<account.Location>>, <<>>),
                        Line("Provisioning State: %v", <<account.ProvisioningState>>, <<>>)>>)
        IN  /\ calls' = Append(calls, Call("storageClient.GetProperties",
                                  ("resourceGroupName" :> groupName)
                                      @@ ("accountName" :> accountName),
                                  err))
            /\ Proceed(r2, "listStorageAccountsByResourceGroup")
    /\ UNCHANGED <<env, clients, result, keys, newKeys, stdin, input, accountTags>>

\* printAccountList: one line for each account of the list.
PrintAccountList(o, list) == o \o [i \in 1..Len(list) |-> Line("%s", <<list[i]>>, <<>>)]

listStorageAccountsByResourceGroup ==
    /\ pc = "listStorageAccountsByResourceGroup"
    /\ \E err \in Errors, list \in GroupAccountLists :
        LET o1 == Append(out, Line("List all storage accounts in '%s' resource group",
                                   <<groupName>>, <<>>))
            r1 == OnErrorFail(o1, err, "ListByResourceGroup failed")
            r2 == IF Exited(r1) THEN r1 ELSE Running(PrintAccountList(r1.out, list))
        IN  /\ calls' = Append(calls, Call("storageClient.ListByResourceGroup",
                                  ("resourceGroupName" :> groupName), err))
            /\ Proceed(r2, "listStorageAccountsBySubscription")
    /\ UNCHANGED <<env, clients, result, keys, newKeys, stdin, input, accountTags>>

listStorageAccountsBySubscription ==
    /\ pc = "listStorageAccountsBySubscription"
    /\ \E err \in Errors, list \in SubscriptionAccountLists :
        LET o1 == Append(out, Line("List all storage accounts under the subscription",
                                   <<>>, <<>>))
            r1 == OnErrorFail(o1, err, "List failed")
            r2 == IF Exited(r1) THEN r1 ELSE Running(PrintAccountList(r1.out, list))
        IN  /\ calls' = Append(calls, Call("storageClient.List",
                                  ("subscriptionID" :> clients[1].storageClient.subscriptionID),
                                  err))
            /\ Proceed(r2, "getStorageKeys")
    /\ UNCHANGED <<env, clients, result, keys, newKeys, stdin, input, accountTags>>

\* No slice at all: the whole value is printed.
TruncateNone(value) == value

\* A slice one byte short: [:4].
TruncateShort(value) == SubSeq(value, 1, PrefixLen - 1)

\* (*key.Value)[:5]: the first PrefixLen bytes (the slice panics on a shorter value).
Truncate(value) == SubSeq(value, 1, PrefixLen)

\* The Printf of one key: its name, the slice of its value, its permissions.
KeyLine(key) ==
    Line("Key name: %s Value: %s... Permissions: %s", <<key.KeyName, key.Permissions>>,
         Truncate(key.Value))

\* getStorageKeys' loop from key i on: two lines for each key, up to the first key
\* whose value is too short to slice.
RECURSIVE PrintKeys(_, _, _)
PrintKeys(o, ks, i) ==
    IF i > Len(ks) THEN Running(o)
    ELSE IF Len(ks[i].Value) < PrefixLen THEN Panic(o)
    ELSE PrintKeys(o \o <<KeyLine(ks[i]), Line("----------------", <<>>, <<>>)>>, ks, i + 1)

getStorageKeys ==
    /\ pc = "getStorageKeys"
    /\ \E err \in Errors, ks \in KeyLists :
        LET o1 == Append(out, Line("Get storage account keys...", <<>>, <<>>))
            r1 == OnErrorFail(o1, err, "ListKeys failed")
            r2 == IF Exited(r1) THEN r1
                  ELSE PrintKeys(Append(r1.out, Line("'%s' storage account keys",
                                                     <<accountName>>, <<>>)),
                                 ks, 1)
        IN  /\ calls' = Append(calls, Call("storageClient.ListKeys",
                                  ("resourceGroupName" :> groupName)
                                      @@ ("accountName" :> accountName),
                                  err))
            /\ keys' = IF err = NilErr THEN <<ks>> ELSE <<>>
            /\ Proceed(r2, "regenStorageKey")
    /\ UNCHANGED <<env, clients, result, newKeys, stdin, input, accountTags>>

\* regenStorageKey after its "Regenerate account key..." line: (*keys.Keys)[0] panics
\* when ListKeys returned no key; else the call is issued, and the new first key is
\* printed (which panics when there is none, or its value is too short).
RegenStorageKey(o, ks, err, nks) ==
    IF Len(ks) = 0 THEN Panic(o)
    ELSE LET r1 == OnErrorFail(o, err, "RegenerateKey failed")
         IN  IF Exited(r1) THEN r1
             ELSE IF Len(nks) = 0 \/ Len(nks[1].Value) < PrefixLen
                 THEN Panic(Append(r1.out, Line("New key", <<>>, <<>>)))
                 ELSE Running(r1.out \o <<Line("New key", <<>>, <<>>), KeyLine(nks[1])>>)

regenStorageKey ==
    /\ pc = "regenStorageKey"
    /\ \E err \in Errors, nks \in KeyLists :
        LET ks == keys[1]
            o1 == Append(out, Line("Regenerate account key...", <<>>, <<>>))
        IN  /\ calls' = IF Len(ks) = 0 THEN calls
                        ELSE Append(calls, Call("storageClient.RegenerateKey",
                                        ("resourceGroupName" :> groupName)
                                            @@ ("accountName" :> accountName)
                                            @@ ("KeyName" :> ks[1].KeyName),
                                        err))
            /\ newKeys' = IF Len(ks) = 0 \/ err # NilErr THEN <<>> ELSE <<nks>>
            /\ Proceed(RegenStorageKey(o1, ks, err, nks), "updateStorageAccount")
    /\ UNCHANGED <<env, clients, result, keys, stdin, input, accountTags>>

\* An Update that keeps the tags the account has and adds the fixed ones.
UpdateParametersMerged == FixedTags @@ accountTags

\* The parameters of the Update call.
UpdateParameters == FixedTags

updateStorageAccount ==
    /\ pc = "updateStorageAccount"
    /\ \E err \in Errors :
        /\ calls' = Append(calls, Call("storageClient.Update", UpdateParameters, err))
        /\ accountTags' = IF err = NilErr THEN UpdateParameters ELSE accountTags
        /\ Proceed(OnErrorFail(Append(out, Line("Update storage account...", <<>>, <<>>)),
                               err, "Update failed"),
                   "listUsage")
    \* regenStorageKey has returned, and main reads keys no more
    /\ keys' = <<>>
    /\ newKeys' = <<>>
    /\ UNCHANGED <<env, clients, result, stdin, input>>

listUsage ==
    /\ pc = "listUsage"
    /\ \E err \in Errors, usageList \in UsageLists :
        LET o1 == Append(out, Line("List usage for storage accounts in subscription...",
                                   <<>>, <<>>))
            r1 == OnErrorFail(o1, err, "List failed")
            r2 == IF Exited(r1) THEN r1
                  ELSE Running(r1.out \o
                      [i \in 1..Len(usageList) |->
                          Line("%v: %v / %v",
                               <<usageList[i].Name, usageList[i].CurrentValue,
                                 usageList[i].Limit>>, <<>>)])
        IN  /\ calls' = Append(calls, Call("usageClient.List",
                                  ("subscriptionID" :> clients[1].usageClient.subscriptionID),
                                  err))
            /\ Proceed(r2, "prompt")
    /\ UNCHANGED <<env, clients, result, keys, newKeys, stdin, input, accountTags>>

(***************************************************************************)
(* The prompt: fmt.Scanln(&input), its error ignored                       *)
(***************************************************************************)
IsSpace(c) == c \in {" ", "\n"}

\* Scanln into one string: skip the blanks before the word; a newline or the end
\* of input there is an error and leaves the string as it was (""); else store the
\* word, the bytes up to the next space, newline or end of input.  What follows
\* the word decides only Scanln's error, which main does not look at.
Scanln(line) ==
    LET n == Len(line)
        start == IF \E i \in 1..n : line[i] # " "
                     THEN CHOOSE i \in 1..n : line[i] # " " /\ \A j \in 1..(i - 1) : line[j] = " "
                     ELSE n + 1
    IN  IF start > n \/ line[start] = "\n" THEN <<>>
        ELSE LET stop == IF \E i \in start..n : IsSpace(line[i])
                             THEN CHOOSE i \in start..n :
                                      IsSpace(line[i]) /\ \A j \in start..(i - 1) : ~IsSpace(line[j])
                             ELSE n + 1
             IN  SubSeq(line, start, stop - 1)

\* A test that takes anything but "n" for a yes.
ConfirmedUnlessNo(in) == in # <<"n">>

\* main's test of the answer: input == "y".
Confirmed(in) == in = <<"y">>

prompt ==
    /\ pc = "prompt"
    /\ \E line \in StdinLines :
        /\ stdin' = line
        /\ input' = Scanln(line)
        /\ out' = Append(out, Line("Press enter to delete the resource group '%s'... (y/n)",
                                   <<groupName>>, <<>>))
        /\ IF Confirmed(Scanln(line))
               THEN pc' = "delete" /\ exitStatus' = exitStatus
               ELSE pc' = "exited" /\ exitStatus' = <<0>>
    /\ UNCHANGED <<env, calls, clients, result, keys, newKeys, accountTags>>

\* func delete without its first onErrorFail: the resource group is deleted whether
\* or not the storage account was.
deleteUnchecked ==
    /\ pc = "delete"
    /\ \E err1 \in Errors, err2 \in Errors :
        LET c1 == Call("storageClient.Delete",
                       ("resourceGroupName" :> groupName) @@ ("accountName" :> accountName),
                       err1)
            c2 == Call("groupClient.Delete", ("resourceGroupName" :> groupName), err2)
            r2 == OnErrorFail(out \o <<Line("Delete storage account...", <<>>, <<>>),
                                       Line("Delete resource group...", <<>>, <<>>)>>,
                              err2, "Delete failed")
        IN  /\ calls' = calls \o <<c1, c2>>
            /\ out' = r2.out
            /\ pc' = "exited"
            /\ exitStatus' = IF Exited(r2) THEN r2.exit ELSE <<0>>
    /\ UNCHANGED <<env, clients, result, keys, newKeys, stdin, input, accountTags>>

\* func delete, and main's return after it.
delete ==
    /\ pc = "delete"
    /\ \E err1 \in Errors, err2 \in Errors :
        LET c1 == Call("storageClient.Delete",
                       ("resourceGroupName" :> groupName) @@ ("accountName" :> accountName),
                       err1)
            c2 == Call("groupClient.Delete", ("resourceGroupName" :> groupName), err2)
            r1 == OnErrorFail(Append(out, Line("Delete storage account...", <<>>, <<>>)),
                              err1, "Delete failed")
            r2 == IF Exited(r1) THEN r1
                  ELSE OnErrorFail(Append(r1.out, Line("Delete resource group...", <<>>, <<>>)),
                                   err2, "Delete failed")
        IN  /\ calls' = IF Exited(r1) THEN Append(calls, c1) ELSE calls \o <<c1, c2>>
            /\ out' = r2.out
            /\ pc' = "exited"
            /\ exitStatus' = IF Exited(r2) THEN r2.exit ELSE <<0>>
    /\ UNCHANGED <<env, clients, result, keys, newKeys, stdin, input, accountTags>>

Init ==
    /\ env \in [{EnvVarNames[i] : i \in 1..Len(EnvVarNames)} -> EnvValues]
    /\ pc = "init"
    /\ exitStatus = <<>>
    /\ out = <<>>
    /\ calls = <<>>
    /\ clients = <<>>
    /\ result = <<>>
    /\ keys = <<>>
    /\ newKeys = <<>>
    /\ stdin = <<>>
    /\ input = <<>>
    /\ accountTags \in PriorTags

Next ==
    \/ init
    \/ registerResourceProvider
    \/ checkAccountAvailability
    \/ createResourceGroup
    \/ createStorageAccount
    \/ getStorageAccountProperties
    \/ listStorageAccountsByResourceGroup
    \/ listStorageAccountsBySubscription
    \/ getStorageKeys
    \/ regenStorageKey
    \/ updateStorageAccount
    \/ listUsage
    \/ prompt
    \/ delete

Spec == Init /\ [][Next]_vars

\* The process is one thread that runs whenever it can: a step that is possible
\* is taken.
FairSpec == Spec /\ WF_vars(Next)

(***************************************************************************)
(* What the properties below speak of.                                     *)
(***************************************************************************)
\* The methods called so far, in order.
Ops == [i \in 1..Len(calls) |-> calls[i].op]

\* main's order of remote calls up to the prompt, and the two deletes after it.
MainOrder ==
    <<"resourcesClient.Register", "storageClient.CheckNameAvailability",
      "groupClient.CreateOrUpdate", "storageClient.Create", "storageClient.GetProperties",
      "storageClient.ListByResourceGroup", "storageClient.List", "storageClient.ListKeys",
      "storageClient.RegenerateKey", "storageClient.Update", "usageClient.List">>
DeleteOrder == <<"storageClient.Delete", "groupClient.Delete">>

IsPrefix(s, t) == Len(s) <= Len(t) /\ SubSeq(t, 1, Len(s)) = s

\* The message onErrorFail is given after each call.
FailureMessage(op) ==
    CASE op = "resourcesClient.Register" -> "Register failed"
      [] op = "storageClient.CheckNameAvailability" -> "CheckNameAvailability failed"
      [] op = "groupClient.CreateOrUpdate" -> "CreateOrUpdate failed"
      [] op = "storageClient.Create" -> "Create failed"
      [] op = "storageClient.GetProperties" -> "GetProperties failed"
      [] op = "storageClient.ListByResourceGroup" -> "ListByResourceGroup failed"
      [] op = "storageClient.List" -> "List failed"
      [] op = "storageClient.ListKeys" -> "ListKeys failed"
      [] op = "storageClient.RegenerateKey" -> "RegenerateKey failed"
      [] op = "storageClient.Update" -> "Update failed"
      [] op = "usageClient.List" -> "List failed"
      [] op = "storageClient.Delete" -> "Delete failed"
      [] op = "groupClient.Delete" -> "Delete failed"

UnsetVars == {i \in 1..Len(EnvVarNames) : env[EnvVarNames[i]] = ""}
EnvAllSet == UnsetVars = {}
Terminated == pc = "exited"
PromptLine == Line("Press enter to delete the resource group '%s'... (y/n)", <<groupName>>, <<>>)
PromptShown == \E i \in 1..Len(out) : out[i] = PromptLine
AllCallsSucceeded == \A i \in 1..Len(calls) : calls[i].err = NilErr
MissingLine(i) == Line("Missing environment variable %s", <<EnvVarNames[i]>>, <<>>)

\* The line read at the prompt: the bytes before the first newline; and its words.
FirstLine(line) ==
    IF \E i \in 1..Len(line) : line[i] = "\n"
        THEN SubSeq(line, 1, (CHOOSE i \in 1..Len(line) :
                                 line[i] = "\n" /\ \A j \in 1..(i - 1) : line[j] # "\n") - 1)
        ELSE line
RECURSIVE Words(_)
Words(l) ==
    IF l = <<>> THEN <<>>
    ELSE IF Head(l) = " " THEN Words(Tail(l))
    ELSE LET w == CHOOSE k \in 1..Len(l) :
                      /\ \A j \in 1..k : l[j] # " "
                      /\ (k = Len(l) \/ l[k + 1] = " ")
         IN  <<SubSeq(l, 1, w)>> \o Words(SubSeq(l, w + 1, Len(l)))
StdinWords == Words(FirstLine(stdin))

(***************************************************************************)
(* C1  Missing environment variable                                        *)
(***************************************************************************)
\* C1, as stated: when one of the four variables is unset, no remote call is ever
\* issued, and once init has run the process has exited with status 1 and its
\* output names a variable that is unset.
C1_MissingNamed ==
    ~EnvAllSet =>
        /\ calls = <<>>
        /\ pc # "init" =>
            /\ Terminated /\ exitStatus = <<1>>
            /\ \E i \in UnsetVars : \E k \in 1..Len(out) : out[k] = MissingLine(i)

\* C1, amended: when one of the four variables is unset, no remote call is ever
\* issued, the clients are never created, and once init has run the process has
\* exited with status 1 having printed one line: the message naming the first
\* variable that is unset, in the order init reads them, or, when the subscription
\* and the tenant are set and OAuthConfigForTenant returns an error, that error's
\* diagnostic.
C1_ExitsBeforeAnyCall ==
    ~EnvAllSet =>
        LET first == CHOOSE i \in UnsetVars : \A j \in UnsetVars : i <= j
        IN  /\ calls = <<>>
            /\ clients = <<>>
            /\ pc # "init" =>
                /\ Terminated /\ exitStatus = <<1>>
                /\ \/ out = <<MissingLine(first)>>
                   \/ /\ first > 2
                      /\ \E e \in Errors \ {NilErr} :
                            out = <<Line("%s: %s", <<"OAuthConfigForTenant failed", e>>, <<>>)>>

\* C1's case: the client secret alone is unset, and the run has exited naming it.
C1_Witness ==
    /\ UnsetVars = {4}
    /\ Terminated /\ exitStatus = <<1>>
    /\ out = <<MissingLine(4)>>
    /\ calls = <<>>

NoDeleteIssued == \A i \in 1..Len(calls) : calls[i].op \notin {DeleteOrder[1], DeleteOrder[2]}

\* C3, as stated (blanks around the word allowed): when the line typed at the
\* prompt is anything but the one word y, no delete call is issued.
C3_OnlyExactY == (StdinWords # <<<<"y">>>>) => NoDeleteIssued

\* C3, amended: when the first word of the line typed at the prompt is not y (an
\* empty line, the end of input, Y, yes, n, n followed by more) no delete call is
\* issued; a line whose first word is y is a yes whatever follows it.
C3_FirstWordNotY == (StdinWords = <<>> \/ Head(StdinWords) # <<"y">>) => NoDeleteIssued

\* C3's case: the user typed "yes", and the run ended with none of the deletes.
C3_Witness ==
    /\ stdin = <<"y", "e", "s">>
    /\ Terminated /\ exitStatus = <<0>>
    /\ Ops = MainOrder

(***************************************************************************)
(* C4  A remote call that fails                                            *)
(***************************************************************************)
\* C4: a remote call that returned an error is the last call of the run: the
\* process has exited with status 1, and the last line it printed is the call's
\* failure message with the error.
C4_FailureIsFatal ==
    \A i \in 1..Len(calls) :
        calls[i].err # NilErr =>
            /\ i = Len(calls)
            /\ Terminated /\ exitStatus = <<1>>
            /\ out # <<>>
            /\ out[Len(out)] = Line("%s: %s", <<FailureMessage(calls[i].op), calls[i].err>>, <<>>)

\* C4's case: Create failed after the resource group was created.
C4_Witness ==
    /\ Len(calls) = 4
    /\ calls[3].op = "groupClient.CreateOrUpdate" /\ calls[3].err = NilErr
    /\ calls[4].op = "storageClient.Create" /\ calls[4].err = "StatusCode=500"
    /\ exitStatus = <<1>>

(***************************************************************************)
(* C5  The order of the calls                                              *)
(***************************************************************************)
\* C5: the calls issued are a prefix of main's order followed by the two deletes,
\* every call but the last has succeeded, and a delete is issued only after the
\* prompt.
C5_CallsArePrefix ==
    /\ IsPrefix(Ops, MainOrder \o DeleteOrder)
    /\ \A i \in 1..(Len(calls) - 1) : calls[i].err = NilErr
    /\ Len(calls) > Len(MainOrder) => PromptShown
    /\ PromptShown => IsPrefix(MainOrder, Ops)

\* C5's case: the run has got as far as ListKeys, which failed.
C5_Witness ==
    /\ Len(calls) = 8
    /\ calls[8].op = "storageClient.ListKeys" /\ calls[8].err # NilErr
    /\ Terminated

(***************************************************************************)
(* C6  A run in which everything succeeds                                  *)
(***************************************************************************)
\* init exited although every variable is set: one of its two library calls failed.
TokenSetupFailed == EnvAllSet /\ Terminated /\ clients = <<>>
Panicked == exitStatus = <<2>>
NameUnavailable == result # <<>> /\ result[1].NameAvailable = FALSE
AtPrompt == pc = "prompt" /\ exitStatus = <<>> /\ Ops = MainOrder /\ AllCallsSucceeded

\* C6, as stated (the values of the variables taken to be valid ones and the
\* results to be well formed): with the four variables set, the token set up and
\* every remote call so far successful, the process has not exited with status 1
\* before the prompt.
C6_NoErrorExitBeforePrompt ==
    (EnvAllSet /\ ~TokenSetupFailed /\ AllCallsSucceeded /\ ~Panicked /\ ~PromptShown)
        => exitStatus # <<1>>

\* C6, amended: every run comes to the prompt, with each call from Register to the
\* usage List issued once, in order and successfully, and without having exited,
\* unless a variable is unset, the token set-up fails, a remote call fails,
\* CheckNameAvailability reports the name unavailable, or a key result makes the
\* program panic (no key, or a value shorter than five bytes).
C6_ReachesPrompt ==
    <>(\/ AtPrompt
       \/ ~EnvAllSet \/ TokenSetupFailed \/ ~AllCallsSucceeded
       \/ NameUnavailable \/ Panicked)

\* C6's case: the run is at the prompt with the eleven calls behind it.
C6_Witness == AtPrompt /\ Len(calls) = 11 /\ EnvAllSet /\ Len(out) > 11

(***************************************************************************)
(* C7  The regenerated key is printed differently                          *)
(***************************************************************************)
IsKeyLine(l) == l.msg = "Key name: %s Value: %s... Permissions: %s"
KeyLinesPrinted == SelectSeq(out, IsKeyLine)
\* regenStorageKey has returned: the keys of ListKeys were printed, then the new key.
RegenReturned == pc = "updateStorageAccount" /\ keys # <<>> /\ newKeys # <<>>
PrintedOriginalFirst == KeyLinesPrinted[1].key
PrintedNew == KeyLinesPrinted[Len(KeyLinesPrinted)].key

\* C7, as stated: when the first key RegenerateKey returned has another value than
\* the first key ListKeys returned, the value printed under "New key" is not the
\* value printed for the original first key.
C7_DistinctValuesPrintDistinct ==
    (RegenReturned /\ newKeys[1][1].Value # keys[1][1].Value)
        => PrintedNew # PrintedOriginalFirst

\* C7, amended: the value printed under "New key" differs from the value printed
\* for the original first key exactly when the two values differ in one of their
\* first five bytes.
C7_PrintedDifferIffPrefixDiffers ==
    RegenReturned =>
        /\ Len(KeyLinesPrinted) = Len(keys[1]) + 1
        /\ (PrintedNew # PrintedOriginalFirst) <=>
              \E i \in 1..PrefixLen : newKeys[1][1].Value[i] # keys[1][1].Value[i]

\* C7's case: the new value differs from the old one in its fifth byte, and so do
\* the two values printed.
C7_Witness ==
    /\ RegenReturned
    /\ keys[1][1].Value = <<"a", "a", "a", "a", "a", "b">>
    /\ newKeys[1][1].Value = <<"a", "a", "a", "a", "b", "b">>
    /\ PrintedNew # PrintedOriginalFirst

(***************************************************************************)
(* C8  The tags of the Update call                                         *)
(***************************************************************************)
\* C8: every Update call carries the two pairs "who rocks" -> "golang" and
\* "where" -> "on azure" and no other, whatever tags the account had.
C8_UpdateSendsFixedTags ==
    \A i \in 1..Len(calls) :
        calls[i].op = "storageClient.Update" =>
            /\ DOMAIN calls[i].arg = {"who rocks", "where"}
            /\ calls[i].arg["who rocks"] = "golang"
            /\ calls[i].arg["where"] = "on azure"

\* C8's case: Update was issued and failed, on an account that carries another tag.
C8_Witness ==
    /\ Len(calls) = 10
    /\ calls[10].op = "storageClient.Update" /\ calls[10].err # NilErr
    /\ "env" \in DOMAIN accountTags

(***************************************************************************)
(* C9  The exit status                                                     *)
(***************************************************************************)
Declined == PromptShown /\ ~Confirmed(input) /\ Ops = MainOrder /\ AllCallsSucceeded
DeletedBoth == PromptShown /\ Ops = MainOrder \o DeleteOrder /\ AllCallsSucceeded

\* C9: a run that is over has exited with status 0 when it went through the whole
\* sequence (the user declined, or confirmed and both deletes succeeded), and with
\* status 1 when a variable is unset or a remote call failed; a run whose remote
\* call failed is over.
C9_ExitStatus ==
    /\ (Terminated /\ (Declined \/ DeletedBoth)) => exitStatus = <<0>>
    /\ (Terminated /\ ~EnvAllSet) => exitStatus = <<1>>
    /\ ~AllCallsSucceeded => exitStatus = <<1>>
    /\ (PromptShown /\ pc # "delete") => Terminated

\* C9's case: the user confirmed, both deletes succeeded, the exit status is 0.
C9_Witness == DeletedBoth /\ Terminated /\ exitStatus = <<0>> /\ input = <<"y">>

(***************************************************************************)
(* C10  The order of the two deletes                                       *)
(***************************************************************************)
\* C10: the resource group delete is issued only right after a storage account
\* delete that succeeded, and only when the user confirmed.
C10_GroupDeleteAfterAccountDelete ==
    \A i \in 1..Len(calls) :
        calls[i].op = "groupClient.Delete" =>
            /\ i > 1
            /\ calls[i - 1].op = "storageClient.Delete"
            /\ calls[i - 1].err = NilErr
            /\ Confirmed(input)
            /\ \A j \in 1..Len(calls) : calls[j].op = "groupClient.Delete" => j = i

\* C10's case: both deletes were issued, and the resource group delete failed.
C10_Witness ==
    /\ Len(calls) = 13
    /\ calls[12].op = "storageClient.Delete" /\ calls[12].err = NilErr
    /\ calls[13].op = "groupClient.Delete" /\ calls[13].err # NilErr

(***************************************************************************)
(* C11  No more than five bytes of a key reach the output                  *)
(***************************************************************************)
\* What may be printed of a key: its name, its permissions and the first five
\* bytes of its value.
FirstBytes(value) == [i \in 1..PrefixLen |-> value[i]]
PrintedOfKey(key) ==
    [msg |-> "Key name: %s Value: %s... Permissions: %s",
     args |-> <<key.KeyName, key.Permissions>>,
     key |-> FirstBytes(key.Value)]

\* C11: the only lines that carry bytes of a key's value are the key lines, each
\* with five bytes; the i-th key line shows the name, the permissions and the first
\* five bytes of the i-th key ListKeys returned, and the one after them those of the
\* first key RegenerateKey returned; every key of ListKeys has its line once
\* getStorageKeys has returned, and the new key has its line once regenStorageKey
\* has.
C11_OnlyPrefixPrinted ==
    /\ \A k \in 1..Len(out) :
          IF IsKeyLine(out[k]) THEN Len(out[k].key) = PrefixLen ELSE out[k].key = <<>>
    /\ keys # <<>> =>
          /\ \A i \in 1..Len(KeyLinesPrinted) :
                IF i <= Len(keys[1])
                    THEN KeyLinesPrinted[i] = PrintedOfKey(keys[1][i])
                    ELSE /\ i = Len(keys[1]) + 1
                         /\ newKeys # <<>>
                         /\ KeyLinesPrinted[i] = PrintedOfKey(newKeys[1][1])
          /\ pc = "regenStorageKey" => Len(KeyLinesPrinted) = Len(keys[1])
          /\ pc = "updateStorageAccount" => Len(KeyLinesPrinted) = Len(keys[1]) + 1
    /\ keys = <<>> => Len(KeyLinesPrinted) <= Len(KeyNames) + 1

\* C11's case: two keys and the new key were printed, each with a sixth byte that
\* the output does not show.
C11_Witness ==
    /\ RegenReturned
    /\ Len(keys[1]) = 2
    /\ keys[1][1].Value = <<"a", "a", "a", "a", "b", "b">>
    /\ keys[1][2].Value = <<"a", "a", "a", "a", "a", "b">>
    /\ newKeys[1][1].Value = <<"a", "a", "a", "a", "a", "b">>
    /\ Len(KeyLinesPrinted) = 3
    /\ KeyLinesPrinted[1].key = <<"a", "a", "a", "a", "b">>

====
